---- MODULE Spec2Model ----
(***************************************************************************)
(* Model of programs/buck_package.py (class BuckPackage): several tool     *)
(* invocations (sessions, one OS process each) resolve a resource cache    *)
(* directory under <buck-out tmp>/resources, take a shared advisory lock   *)
(* on a marker file in it, and unpack package resources into it.           *)
(*                                                                         *)
(* Paths are modelled structurally: a cache directory is the sequence of   *)
(* characters of its name below the resource dir, a resource path is the   *)
(* pair <<cache directory, package name>>, a package name is the sequence  *)
(* of its components.                                                      *)
(***************************************************************************)
EXTENDS Integers, Sequences, FiniteSets, TLC

\* ---------------------------------------------------------------- bounds
NumSessions == 2
MaxCalls == 2
MaxExits == 2
MaxExtLocks == 2

Sessions == 1..NumSessions

\* ------------------------------------------------- signatures, directories
\* Characters of directory names; mkdtemp appends random characters to the
\* prefix it is given.
SuffixChars == {1, 2}
Sigs == {<<1>>, <<1, 2>>}
Suffixes == {<<c>> : c \in SuffixChars}

\* os.path.join(resource_dir, resources_signature), relative to resource_dir
Canonical(signature) == signature

\* the names tempfile.mkdtemp(dir=resource_dir, prefix=p) can produce
MkdtempNames(prefix) == {prefix \o suf : suf \in Suffixes}

AllDirs == Sigs \cup UNION {MkdtempNames(g) : g \in Sigs}

\* ------------------------------------------------------------- the package
VARIABLES
  package,          \* the entries of the package the process runs from
  package_info,     \* the parsed resource buck_package_info
  environ,          \* os.environ of the process
  buck_version,     \* <<value>> the last get_buck_version returned
  fake_version,     \* <<default, value>> of the last get_fake_version
  has_fake          \* <<value>> the last has_fake_version returned

envVars == <<package, package_info, environ, buck_version, fake_version, has_fake>>

SERVER == [name |-> <<"buck_server">>, basename |-> <<"buck_server">>, executable |-> FALSE]
BOOTSTRAPPER == [name |-> <<"bootstrapper_jar">>, basename |-> <<"bootstrapper_jar">>, executable |-> FALSE]
MODULES_DIR == <<"buck-modules">>
MODULES_RESOURCES_DIR == <<"buck-modules-resources">>

Registry == {SERVER, BOOTSTRAPPER}

\* a descriptor declared with executable=True, as the exported resources of
\* the base class can be
TOOL == [name |-> <<"tool">>, basename |-> <<"tool">>, executable |-> TRUE]

\* the descriptors _get_resource is called with
Descriptors == Registry \cup {TOOL}

\* the file entries and the directory entries of the complete package
StdFiles ==
  ( <<"buck_server">> :> <<7, 8>> ) @@
  ( <<"tool">> :> <<9>> ) @@
  ( <<"buck-modules", "a">> :> <<5>> ) @@
  ( <<"buck-modules", "b", "c">> :> <<6>> )

StdDirs ==
  ( <<"buck-modules">> :> <<"a", "b">> ) @@
  ( <<"buck-modules", "b">> :> <<"", "c">> ) @@
  ( <<"buck-modules-resources">> :> << >> )

StdPackage == [files |-> StdFiles, dirs |-> StdDirs]

\* a package built without the modules directory
NoModules ==
  [files |-> [n \in {<<"buck_server">>, <<"tool">>} |-> StdFiles[n]],
   dirs |-> [n \in {MODULES_RESOURCES_DIR} |-> StdDirs[n]]]

\* a package in which the name of the modules directory is a file entry
ModulesIsFile ==
  [files |-> ( MODULES_DIR :> <<4>> ) @@ NoModules.files,
   dirs |-> NoModules.dirs]

\* a package built without the module resources directory
NoModulesResources ==
  [files |-> StdFiles,
   dirs |-> [n \in DOMAIN StdDirs \ {MODULES_RESOURCES_DIR} |-> StdDirs[n]]]

Packages == {StdPackage, NoModules, ModulesIsFile, NoModulesResources}

\* pkg_resources.resource_string: the bytes of the file entries
PkgFiles == package.files

\* pkg_resources.resource_listdir: the children of the directory entries
PkgDirs == package.dirs

resource_exists(n) == n \in DOMAIN PkgFiles \/ n \in DOMAIN PkgDirs
resource_isdir(n) == n \in DOMAIN PkgDirs
resource_listdir(n) == PkgDirs[n]
resource_string(n) == PkgFiles[n]

AllNames == UNION {DOMAIN k.files \cup DOMAIN k.dirs : k \in Packages}
                \cup {r.name : r \in Descriptors}
                \cup {r.basename : r \in Descriptors}

\* os.path.join(path, f) on a package name or a path below a cache directory
Join(n, f) == Append(n, f)

\* --------------------------------------------------- version and override
BUCK_FAKE_VERSION_ENV == "BUCK_FAKE_VERSION"

\* the values of the version field of buck_package_info
PackagedVersions == {"v1", "v2"}

\* the values the override can be set to
EnvValues == {"", "v1", "fake"}

\* the default arguments get_fake_version is called with
Defaults == {"", "dflt"}

\* an environment without the override
NoEnviron == [k \in {} |-> ""]

Environs == {NoEnviron} \cup {(BUCK_FAKE_VERSION_ENV :> v) : v \in EnvValues}

StdInfo == [version |-> "v1"]

\* ------------------------------------------------------------ file system
NoEntry == [kind |-> "none", data |-> << >>, x |-> FALSE]
DirEntry == [kind |-> "dir", data |-> << >>, x |-> FALSE]

VARIABLES
  sig,              \* session -> its resources signature
  pc,               \* session -> position in the code
  call,             \* session -> the public call in progress
  resource_subdir,  \* session -> self._resource_subdir (<<>> is None)
  lock_file,        \* session -> self._lock_file: index in handles, 0 is None
  handles,          \* session -> the marker-file handles it opened, in order
  subdir,           \* session -> local subdir of _get_resource_subdir
  todo,             \* session -> pending _unpack_resource activations (DFS)
  udleft,           \* session -> children _unpack_dir has still to examine
  tmp,              \* session -> its MovableTemporaryFile
  off,              \* session -> offset of the copy into the target
  result,           \* session -> outcome of the last public call
  ret,              \* session -> value the last public call returned
  calls,            \* session -> number of public calls started
  exits,            \* session -> number of __exit__ calls
  lastExc,          \* session -> the last __exit__ was given an exception
  callAttempts,     \* session -> lock attempts in the current call
  callMkdirs,       \* session -> cache directories created in the current call
  skipped,          \* session -> names found present in the current call
  touched,          \* session -> names read or written in the current call
  dirs,             \* cache directories that exist under the resource dir
  markers,          \* cache directories whose marker file exists
  extExcl,          \* directories locked exclusively by foreign processes
  extLocks,         \* number of exclusive locks foreign processes have taken
  fs                \* <<cache directory, name>> -> entry

vars == <<envVars, sig, pc, call, resource_subdir, lock_file, handles, subdir, todo,
          udleft, tmp, off, result, ret, calls, exits, lastExc, callAttempts,
          callMkdirs, skipped, touched, dirs, markers, extExcl, extLocks, fs>>

sessVars == <<sig, pc, call, resource_subdir, lock_file, handles, subdir, todo,
          udleft, tmp, off, result, ret, calls, exits, lastExc, callAttempts,
          callMkdirs, skipped, touched>>

None == << >>
NoCall == [kind |-> "none", res |-> SERVER, phase |-> 0]
NoTmp == [open |-> FALSE, data |-> << >>, x |-> FALSE]

Init ==
  /\ package \in Packages
  /\ package_info \in [version : PackagedVersions]
  /\ environ \in Environs
  /\ buck_version = << >>
  /\ fake_version = << >>
  /\ has_fake = << >>
  /\ sig \in {f \in [Sessions -> Sigs] : f[1] = <<1>>}
  /\ pc = [s \in Sessions |-> "idle"]
  /\ call = [s \in Sessions |-> NoCall]
  /\ resource_subdir = [s \in Sessions |-> None]
  /\ lock_file = [s \in Sessions |-> 0]
  /\ handles = [s \in Sessions |-> << >>]
  /\ subdir = [s \in Sessions |-> None]
  /\ todo = [s \in Sessions |-> << >>]
  /\ udleft = [s \in Sessions |-> << >>]
  /\ tmp = [s \in Sessions |-> NoTmp]
  /\ off = [s \in Sessions |-> 0]
  /\ result = [s \in Sessions |-> "none"]
  /\ ret = [s \in Sessions |-> None]
  /\ calls = [s \in Sessions |-> 0]
  /\ exits = [s \in Sessions |-> 0]
  /\ lastExc = [s \in Sessions |-> FALSE]
  /\ callAttempts = [s \in Sessions |-> 0]
  /\ callMkdirs = [s \in Sessions |-> 0]
  /\ skipped = [s \in Sessions |-> {}]
  /\ touched = [s \in Sessions |-> {}]
  /\ dirs = {}
  /\ markers = {}
  /\ extExcl = {}
  /\ extLocks = 0
  /\ fs = [p \in AllDirs \X AllNames |-> NoEntry]


\* the complete package, run without the override
InitStd ==
  /\ Init
  /\ package = StdPackage
  /\ package_info = StdInfo
  /\ environ = NoEnviron

\* --------------------------------------------------------------- helpers
\* variant of PathExists: the presence test always answers no
PathExistsNever(d, n) == FALSE

\* os.path.exists on a path below a cache directory
PathExists(d, n) == fs[<<d, n>>].kind # "none"

\* sessions that hold a shared lock on the marker file of directory d
SharedHolders(d) ==
  {s \in Sessions : \E i \in 1..Len(handles[s]) :
      handles[s][i].dir = d /\ handles[s][i].state = "locked"}

\* file_locks.acquire_shared_lock(lock_file): a non-blocking shared lock is
\* refused exactly when another process holds the file exclusively
acquire_shared_lock(d) == d \notin extExcl

\* open(lock_file_path, "a+"): a fresh handle on the marker file of d
NewHandle(d) == [dir |-> d, state |-> "open", closes |-> 0]

\* variant of create_dir_reraises: EEXIST is re-raised like any other error
create_dir_reraisesAll(errno) == TRUE

\* line 118: __create_dir re-raises every OSError but EEXIST
create_dir_reraises(errno) == errno # "EEXIST"

\* variant of NeedsResolve: the memo is never consulted
NeedsResolveAlways(s) == TRUE

\* line 89: the memo test of _get_resource_subdir
NeedsResolve(s) == resource_subdir[s] = None

\* variant of FreshNames: the fallback reuses the prefix as the name
FreshNamesReuse(prefix) == {prefix}

\* names tempfile.mkdtemp may still create (it never reuses an existing one)
FreshNames(prefix) == MkdtempNames(prefix) \ dirs

\* where the caller continues once _get_resource_subdir has returned
AfterSubdir(s) == IF call[s].kind = "get" THEN "gr_check" ELSE "ud_start"

\* an exception propagates out of the public call in progress
RaiseTo(s) ==
  /\ pc' = [pc EXCEPT ![s] = "idle"]
  /\ result' = [result EXCEPT ![s] = "raised"]
  /\ ret' = [ret EXCEPT ![s] = None]
  /\ todo' = [todo EXCEPT ![s] = << >>]
  /\ udleft' = [udleft EXCEPT ![s] = << >>]
  /\ skipped' = [skipped EXCEPT ![s] = {}]
  /\ touched' = [touched EXCEPT ![s] = {}]

\* --------------------------------------------------- the public entries
\* a consumer asks for the path of a declared resource (lines 127-128, and
\* _get_bootstrap_classpath / _get_java_classpath, lines 186-193)
CallGetResource(s, r) ==
  /\ pc[s] = "idle"
  /\ calls[s] < MaxCalls
  /\ pc' = [pc EXCEPT ![s] = "subdir"]
  /\ call' = [call EXCEPT ![s] = [kind |-> "get", res |-> r, phase |-> 0]]
  /\ calls' = [calls EXCEPT ![s] = @ + 1]
  /\ result' = [result EXCEPT ![s] = "none"]
  /\ ret' = [ret EXCEPT ![s] = None]
  /\ callAttempts' = [callAttempts EXCEPT ![s] = 0]
  /\ callMkdirs' = [callMkdirs EXCEPT ![s] = 0]
  /\ skipped' = [skipped EXCEPT ![s] = {}]
  /\ touched' = [touched EXCEPT ![s] = {}]
  /\ UNCHANGED <<envVars, sig, resource_subdir, lock_file, handles, subdir, todo,
                 udleft, tmp, off, exits, lastExc, dirs, markers, extExcl, extLocks, fs>>

\* _unpack_modules (lines 195-198): the first argument evaluation
CallUnpackModules(s) ==
  /\ pc[s] = "idle"
  /\ calls[s] < MaxCalls
  /\ pc' = [pc EXCEPT ![s] = "subdir"]
  /\ call' = [call EXCEPT ![s] = [kind |-> "modules", res |-> SERVER, phase |-> 1]]
  /\ calls' = [calls EXCEPT ![s] = @ + 1]
  /\ result' = [result EXCEPT ![s] = "none"]
  /\ ret' = [ret EXCEPT ![s] = None]
  /\ callAttempts' = [callAttempts EXCEPT ![s] = 0]
  /\ callMkdirs' = [callMkdirs EXCEPT ![s] = 0]
  /\ skipped' = [skipped EXCEPT ![s] = {}]
  /\ touched' = [touched EXCEPT ![s] = {}]
  /\ UNCHANGED <<envVars, sig, resource_subdir, lock_file, handles, subdir, todo,
                 udleft, tmp, off, exits, lastExc, dirs, markers, extExcl, extLocks, fs>>

\* ------------------------------------------------- _get_resource_subdir
\* lines 89, 110: the directory is already resolved
SubdirMemo(s) ==
  /\ pc[s] = "subdir"
  /\ ~NeedsResolve(s)
  /\ pc' = [pc EXCEPT ![s] = AfterSubdir(s)]
  /\ UNCHANGED <<envVars, sig, call, resource_subdir, lock_file, handles, subdir, todo,
                 udleft, tmp, off, result, ret, calls, exits, lastExc, callAttempts,
                 callMkdirs, skipped, touched, dirs, markers, extExcl,
                 extLocks, fs>>

\* lines 90-93, 81-83: try_subdir on the canonical directory up to the open
TryCanonical(s) ==
  /\ pc[s] = "subdir"
  /\ NeedsResolve(s)
  /\ Canonical(sig[s]) \in dirs => ~create_dir_reraises("EEXIST")
  /\ LET d == Canonical(sig[s]) IN
       /\ subdir' = [subdir EXCEPT ![s] = d]
       /\ callMkdirs' = [callMkdirs EXCEPT ![s] = IF d \in dirs THEN @ ELSE @ + 1]
       /\ dirs' = dirs \cup {d}
       /\ markers' = markers \cup {d}
       /\ handles' = [handles EXCEPT ![s] = Append(@, NewHandle(d))]
  /\ pc' = [pc EXCEPT ![s] = "lock1"]
  /\ UNCHANGED <<envVars, sig, call, resource_subdir, lock_file, todo, udleft, tmp, off,
                 result, ret, calls, exits, lastExc, callAttempts, skipped, touched,
                 extExcl, extLocks, fs>>

\* lines 113-119: os.makedirs of the canonical directory fails (with EEXIST
\* if it exists, with another error such as EACCES if it does not) and
\* __create_dir re-raises the error
CreateDirFails(s) ==
  /\ pc[s] = "subdir"
  /\ NeedsResolve(s)
  /\ create_dir_reraises(IF Canonical(sig[s]) \in dirs THEN "EEXIST" ELSE "EACCES")
  /\ RaiseTo(s)
  /\ UNCHANGED <<envVars, sig, call, resource_subdir, lock_file, handles, subdir, tmp,
                 off, calls, exits, lastExc, callAttempts, callMkdirs, dirs, markers,
                 extExcl, extLocks, fs>>

\* lines 84-87, 93-96: the lock attempt on the canonical marker file
LockCanonical(s) ==
  /\ pc[s] = "lock1"
  /\ callAttempts' = [callAttempts EXCEPT ![s] = @ + 1]
  /\ IF acquire_shared_lock(subdir[s])
       THEN /\ handles' = [handles EXCEPT ![s][Len(handles[s])].state = "locked"]
            /\ lock_file' = [lock_file EXCEPT ![s] = Len(handles[s])]
            /\ resource_subdir' = [resource_subdir EXCEPT ![s] = subdir[s]]
            /\ pc' = [pc EXCEPT ![s] = AfterSubdir(s)]
       ELSE /\ lock_file' = [lock_file EXCEPT ![s] = 0]
            /\ pc' = [pc EXCEPT ![s] = "mkdtemp"]
            /\ UNCHANGED <<handles, resource_subdir>>
  /\ UNCHANGED <<envVars, sig, call, subdir, todo, udleft, tmp, off, result, ret, calls,
                 exits, lastExc, callMkdirs, skipped, touched, dirs, markers, extExcl,
                 extLocks, fs>>

\* line 102: tempfile.mkdtemp creates a directory that did not exist
Mkdtemp(s) ==
  /\ pc[s] = "mkdtemp"
  /\ \E d \in FreshNames(sig[s]) :
       /\ dirs' = dirs \cup {d}
       /\ subdir' = [subdir EXCEPT ![s] = d]
  /\ callMkdirs' = [callMkdirs EXCEPT ![s] = @ + 1]
  /\ pc' = [pc EXCEPT ![s] = "open2"]
  /\ UNCHANGED <<envVars, sig, call, resource_subdir, lock_file, handles, todo, udleft,
                 tmp, off, result, ret, calls, exits, lastExc, callAttempts, skipped,
                 touched, markers, extExcl, extLocks, fs>>

\* line 102: tempfile.mkdtemp finds no usable name and raises
MkdtempFails(s) ==
  /\ pc[s] = "mkdtemp"
  /\ FreshNames(sig[s]) = {}
  /\ RaiseTo(s)
  /\ UNCHANGED <<envVars, sig, call, resource_subdir, lock_file, handles, subdir, tmp,
                 off, calls, exits, lastExc, callAttempts, callMkdirs, dirs, markers,
                 extExcl, extLocks, fs>>

\* lines 103, 81-83: try_subdir on the fallback directory up to the open
TryFallback(s) ==
  /\ pc[s] = "open2"
  /\ ~create_dir_reraises("EEXIST")
  /\ markers' = markers \cup {subdir[s]}
  /\ handles' = [handles EXCEPT ![s] = Append(@, NewHandle(subdir[s]))]
  /\ pc' = [pc EXCEPT ![s] = "lock2"]
  /\ UNCHANGED <<envVars, sig, call, resource_subdir, lock_file, subdir, todo, udleft,
                 tmp, off, result, ret, calls, exits, lastExc, callAttempts, callMkdirs,
                 skipped, touched, dirs, extExcl, extLocks, fs>>

\* variant of LockFallback: a refused fallback lock is retried on another
\* fresh directory instead of raising
LockFallbackRetry(s) ==
  /\ pc[s] = "lock2"
  /\ callAttempts' = [callAttempts EXCEPT ![s] = @ + 1]
  /\ IF acquire_shared_lock(subdir[s])
       THEN /\ handles' = [handles EXCEPT ![s][Len(handles[s])].state = "locked"]
            /\ lock_file' = [lock_file EXCEPT ![s] = Len(handles[s])]
            /\ resource_subdir' = [resource_subdir EXCEPT ![s] = subdir[s]]
            /\ pc' = [pc EXCEPT ![s] = AfterSubdir(s)]
       ELSE /\ lock_file' = [lock_file EXCEPT ![s] = 0]
            /\ pc' = [pc EXCEPT ![s] = "mkdtemp"]
            /\ UNCHANGED <<handles, resource_subdir>>
  /\ UNCHANGED <<envVars, sig, call, subdir, todo, udleft, tmp, off, result, ret, calls,
                 exits, lastExc, callMkdirs, skipped, touched, dirs, markers,
                 extExcl, extLocks, fs>>

\* lines 84-87, 103-108: the lock attempt on the fallback marker file
LockFallback(s) ==
  /\ pc[s] = "lock2"
  /\ callAttempts' = [callAttempts EXCEPT ![s] = @ + 1]
  /\ IF acquire_shared_lock(subdir[s])
       THEN /\ handles' = [handles EXCEPT ![s][Len(handles[s])].state = "locked"]
            /\ lock_file' = [lock_file EXCEPT ![s] = Len(handles[s])]
            /\ resource_subdir' = [resource_subdir EXCEPT ![s] = subdir[s]]
            /\ pc' = [pc EXCEPT ![s] = AfterSubdir(s)]
            /\ UNCHANGED <<result, ret, todo, udleft, skipped, touched>>
       ELSE /\ lock_file' = [lock_file EXCEPT ![s] = 0]
            /\ RaiseTo(s)
            /\ UNCHANGED <<handles, resource_subdir>>
  /\ UNCHANGED <<envVars, sig, call, subdir, tmp, off, calls, exits, lastExc, callMkdirs, dirs,
                 markers, extExcl, extLocks, fs>>

\* ------------------------------------------------------------- __exit__
\* variant of Exit: the handle is closed but self._lock_file is not reset
ExitNoReset(s, exc) ==
  /\ pc[s] = "idle"
  /\ exits[s] < MaxExits
  /\ exits' = [exits EXCEPT ![s] = @ + 1]
  /\ lastExc' = [lastExc EXCEPT ![s] = exc]
  /\ IF lock_file[s] # 0
       THEN handles' = [handles EXCEPT ![s][lock_file[s]] =
                  [@ EXCEPT !.state = "closed", !.closes = @ + 1]]
       ELSE UNCHANGED handles
  /\ UNCHANGED <<envVars, sig, pc, call, resource_subdir, lock_file, subdir, todo, udleft,
                 tmp, off, result, ret, calls, callAttempts, callMkdirs, skipped,
                 touched, dirs, markers, extExcl, extLocks, fs>>

\* lines 235-238; exc tells whether the with block is left by an exception
\* (exc_type is not None), which the handler does not look at
Exit(s, exc) ==
  /\ pc[s] = "idle"
  /\ exits[s] < MaxExits
  /\ exits' = [exits EXCEPT ![s] = @ + 1]
  /\ lastExc' = [lastExc EXCEPT ![s] = exc]
  /\ IF lock_file[s] # 0
       THEN /\ handles' = [handles EXCEPT ![s][lock_file[s]] =
                  [@ EXCEPT !.state = "closed", !.closes = @ + 1]]
            /\ lock_file' = [lock_file EXCEPT ![s] = 0]
       ELSE UNCHANGED <<handles, lock_file>>
  /\ UNCHANGED <<envVars, sig, pc, call, resource_subdir, subdir, todo, udleft, tmp, off,
                 result, ret, calls, callAttempts, callMkdirs, skipped, touched,
                 dirs, markers, extExcl, extLocks, fs>>

\* lines 83-87: after a refused attempt try_subdir returns None and nothing
\* refers to the file object it opened; the program never closes it, the
\* runtime may, when it reclaims the object (at once, later, or never)
Finalize(s) ==
  /\ \E i \in 1..Len(handles[s]) :
       /\ handles[s][i].state = "open"
       /\ i # lock_file[s]
       /\ ~(i = Len(handles[s]) /\ pc[s] \in {"lock1", "lock2"})
       /\ handles' = [handles EXCEPT ![s][i] =
                        [@ EXCEPT !.state = "closed", !.closes = @ + 1]]
  /\ UNCHANGED <<envVars, sig, pc, call, resource_subdir, lock_file, subdir, todo,
                 udleft, tmp, off, result, ret, calls, exits, lastExc,
                 callAttempts, callMkdirs, skipped, touched, dirs, markers,
                 extExcl, extLocks, fs>>

\* ----------------------------------------------------------- environment
\* the process of a session terminates; the operating system closes its
\* handles and its memory is gone, what it wrote to disk stays
Crash(s) ==
  /\ pc[s] \notin {"dead", "idle"}
  /\ pc' = [pc EXCEPT ![s] = "dead"]
  /\ call' = [call EXCEPT ![s] = NoCall]
  /\ resource_subdir' = [resource_subdir EXCEPT ![s] = None]
  /\ lock_file' = [lock_file EXCEPT ![s] = 0]
  /\ handles' = [handles EXCEPT ![s] = << >>]
  /\ subdir' = [subdir EXCEPT ![s] = None]
  /\ todo' = [todo EXCEPT ![s] = << >>]
  /\ udleft' = [udleft EXCEPT ![s] = << >>]
  /\ tmp' = [tmp EXCEPT ![s] = NoTmp]
  /\ off' = [off EXCEPT ![s] = 0]
  /\ result' = [result EXCEPT ![s] = "none"]
  /\ ret' = [ret EXCEPT ![s] = None]
  /\ calls' = [calls EXCEPT ![s] = 0]
  /\ exits' = [exits EXCEPT ![s] = 0]
  /\ lastExc' = [lastExc EXCEPT ![s] = FALSE]
  /\ callAttempts' = [callAttempts EXCEPT ![s] = 0]
  /\ callMkdirs' = [callMkdirs EXCEPT ![s] = 0]
  /\ skipped' = [skipped EXCEPT ![s] = {}]
  /\ touched' = [touched EXCEPT ![s] = {}]
  /\ UNCHANGED <<envVars, sig, dirs, markers, extExcl, extLocks, fs>>

\* a foreign process (such as a cleaner of old resource directories) takes
\* the exclusive lock on an existing marker file nobody holds
ExtLock(d) ==
  /\ d \in markers
  /\ d \notin extExcl
  /\ SharedHolders(d) = {}
  /\ extLocks < MaxExtLocks
  /\ extExcl' = extExcl \cup {d}
  /\ extLocks' = extLocks + 1
  /\ UNCHANGED <<envVars, sessVars, dirs, markers, fs>>

\* the foreign process releases its exclusive lock
ExtUnlock(d) ==
  /\ d \in extExcl
  /\ extExcl' = extExcl \ {d}
  /\ UNCHANGED <<envVars, sessVars, dirs, markers, extLocks, fs>>


\* ------------------------------------------------------- _get_resource
\* variant of Item: every activation is taken to be executable
ItemAlwaysExe(p, n, e) == [path |-> p, name |-> n, exe |-> TRUE]

\* the _unpack_resource activation for a resource path and a package name
Item(p, n, e) == [path |-> p, name |-> n, exe |-> e]

\* public call returns normally with value v
ReturnTo(s, v) ==
  /\ pc' = [pc EXCEPT ![s] = "idle"]
  /\ result' = [result EXCEPT ![s] = "ok"]
  /\ ret' = [ret EXCEPT ![s] = v]
  /\ touched' = [touched EXCEPT ![s] = {}]

\* lines 128-139 up to the call of _unpack_resource; the parent of the
\* resource path is the cache directory, which exists (lines 129-130)
GetResourceCheck(s) ==
  /\ pc[s] = "gr_check"
  /\ LET d == resource_subdir[s]
         r == call[s].res
     IN IF PathExists(d, r.basename)
          THEN /\ ReturnTo(s, <<d, r.basename>>)
               /\ UNCHANGED todo
          ELSE /\ todo' = [todo EXCEPT ![s] = <<Item(r.basename, r.name, r.executable)>>]
               /\ pc' = [pc EXCEPT ![s] = "unpack"]
               /\ UNCHANGED <<result, ret, touched>>
  /\ skipped' = [skipped EXCEPT ![s] =
        IF fs[<<resource_subdir[s], call[s].res.basename>>].kind # "none"
          THEN @ \cup {call[s].res.basename} ELSE @]
  /\ UNCHANGED <<envVars, sig, call, resource_subdir, lock_file, handles, subdir, udleft,
                 tmp, off, calls, exits, lastExc, callAttempts, callMkdirs, dirs,
                 markers, extExcl, extLocks, fs>>

\* ----------------------------------------------------- _unpack_resource
\* hasattr(os, "fchmod") of the platform
HasFchmod == TRUE

\* variant of ChildItems: the children of a directory are not unpacked
ChildItemsNone(p, n, fl) == << >>

\* the children activations of a package directory, in listing order,
\* without the empty names (lines 147-156)
RECURSIVE ChildItems(_, _, _)
ChildItems(p, n, fl) ==
  IF fl = << >> THEN << >>
  ELSE IF Head(fl) = "" THEN ChildItems(p, n, Tail(fl))
  ELSE <<Item(Join(p, Head(fl)), Join(n, Head(fl)), FALSE)>>
         \o ChildItems(p, n, Tail(fl))

\* a write of byte b at offset o of a file holding data (a hole reads 0)
WriteAt(data, o, b) ==
  IF o < Len(data)
    THEN [data EXCEPT ![o + 1] = b]
    ELSE data \o [i \in 1..(o - Len(data)) |-> 0] \o <<b>>

\* the outermost activation has returned: back in the caller (line 139, or
\* the loop of _unpack_dir at line 224)
UnpackReturn(s) ==
  /\ pc[s] = "unpack"
  /\ todo[s] = << >>
  /\ IF call[s].kind = "get"
       THEN ReturnTo(s, <<resource_subdir[s], call[s].res.basename>>)
       ELSE /\ pc' = [pc EXCEPT ![s] = "ud_loop"]
            /\ UNCHANGED <<result, ret, touched>>
  /\ UNCHANGED <<envVars, sig, call, resource_subdir, lock_file, handles, subdir, todo,
                 udleft, tmp, off, calls, exits, lastExc, callAttempts, callMkdirs,
                 skipped, dirs, markers, extExcl, extLocks, fs>>

\* lines 142-143: the name is not in the package, the activation returns
UnpackMissing(s) ==
  /\ pc[s] = "unpack"
  /\ todo[s] # << >>
  /\ ~resource_exists(Head(todo[s]).name)
  /\ todo' = [todo EXCEPT ![s] = Tail(@)]
  /\ UNCHANGED <<envVars, sig, pc, call, resource_subdir, lock_file, handles, subdir,
                 udleft, tmp, off, result, ret, calls, exits, lastExc, callAttempts,
                 callMkdirs, skipped, touched, dirs, markers, extExcl,
                 extLocks, fs>>

\* lines 145-156: a directory entry; its children are unpacked depth first
UnpackDirectory(s) ==
  /\ pc[s] = "unpack"
  /\ todo[s] # << >>
  /\ LET it == Head(todo[s])
         d == resource_subdir[s]
     IN /\ resource_exists(it.name)
        /\ resource_isdir(it.name)
        /\ fs' = IF fs[<<d, it.path>>].kind = "none"
                   THEN [fs EXCEPT ![<<d, it.path>>] = DirEntry] ELSE fs
        /\ touched' = [touched EXCEPT ![s] = @ \cup {it.path}]
        /\ todo' = [todo EXCEPT ![s] =
              ChildItems(it.path, it.name, resource_listdir(it.name)) \o Tail(@)]
  /\ UNCHANGED <<envVars, sig, pc, call, resource_subdir, lock_file, handles, subdir,
                 udleft, tmp, off, result, ret, calls, exits, lastExc, callAttempts,
                 callMkdirs, skipped, dirs, markers, extExcl, extLocks>>

\* lines 158-164: a file entry; its bytes are read from the package and
\* written to a temporary file next to the resource path
UnpackLeafTemp(s) ==
  /\ pc[s] = "unpack"
  /\ todo[s] # << >>
  /\ LET it == Head(todo[s]) IN
        /\ resource_exists(it.name)
        /\ ~resource_isdir(it.name)
        /\ tmp' = [tmp EXCEPT ![s] = [open |-> TRUE,
                                      data |-> resource_string(it.name),
                                      x |-> it.exe /\ HasFchmod]]
        /\ touched' = [touched EXCEPT ![s] = @ \cup {it.path}]
  /\ pc' = [pc EXCEPT ![s] = "copy_open"]
  /\ UNCHANGED <<envVars, sig, call, resource_subdir, lock_file, handles, subdir, todo,
                 udleft, off, result, ret, calls, exits, lastExc, callAttempts,
                 callMkdirs, skipped, dirs, markers, extExcl, extLocks, fs>>

\* line 165: shutil.copy opens the resource path for writing, which creates
\* it or truncates it
CopyOpen(s) ==
  /\ pc[s] = "copy_open"
  /\ LET key == <<resource_subdir[s], Head(todo[s]).path>> IN
       fs' = [fs EXCEPT ![key] = [kind |-> "file", data |-> << >>,
                                  x |-> fs[key].kind = "file" /\ fs[key].x]]
  /\ off' = [off EXCEPT ![s] = 0]
  /\ pc' = [pc EXCEPT ![s] = "copy"]
  /\ UNCHANGED <<envVars, sig, call, resource_subdir, lock_file, handles, subdir, todo,
                 udleft, tmp, result, ret, calls, exits, lastExc, callAttempts,
                 callMkdirs, skipped, touched, dirs, markers, extExcl, extLocks>>

\* line 165: shutil.copy writes the next piece of the temporary file
CopyChunk(s) ==
  /\ pc[s] = "copy"
  /\ off[s] < Len(tmp[s].data)
  /\ LET key == <<resource_subdir[s], Head(todo[s]).path>> IN
       fs' = [fs EXCEPT ![key].data = WriteAt(@, off[s], tmp[s].data[off[s] + 1])]
  /\ off' = [off EXCEPT ![s] = @ + 1]
  /\ UNCHANGED <<envVars, sig, pc, call, resource_subdir, lock_file, handles, subdir,
                 todo, udleft, tmp, result, ret, calls, exits, lastExc, callAttempts,
                 callMkdirs, skipped, touched, dirs, markers, extExcl, extLocks>>

\* line 165 and the end of the with block: shutil.copy copies the mode bits,
\* the temporary file is removed and the activation returns
CopyFinish(s) ==
  /\ pc[s] = "copy"
  /\ off[s] = Len(tmp[s].data)
  /\ LET key == <<resource_subdir[s], Head(todo[s]).path>> IN
       fs' = [fs EXCEPT ![key].x = tmp[s].x]
  /\ tmp' = [tmp EXCEPT ![s] = NoTmp]
  /\ off' = [off EXCEPT ![s] = 0]
  /\ todo' = [todo EXCEPT ![s] = Tail(@)]
  /\ pc' = [pc EXCEPT ![s] = "unpack"]
  /\ UNCHANGED <<envVars, sig, call, resource_subdir, lock_file, handles, subdir, udleft,
                 result, ret, calls, exits, lastExc, callAttempts, callMkdirs, skipped,
                 touched, dirs, markers, extExcl, extLocks>>

\* ----------------------------------------------------------- _unpack_dir
\* the package directory _unpack_modules is unpacking (lines 196-202)
CurDir(s) == IF call[s].phase = 1 THEN MODULES_DIR ELSE MODULES_RESOURCES_DIR

\* variant of UnpackDirStart: the destination directory is created before
\* the package is asked about the resource
UnpackDirStartCreateFirst(s) ==
  /\ pc[s] = "ud_start"
  /\ LET rd == CurDir(s)
         key == <<resource_subdir[s], CurDir(s)>>
     IN /\ fs' = IF fs[key].kind = "none"
                   THEN [fs EXCEPT ![key] = DirEntry] ELSE fs
        /\ IF ~resource_exists(rd) \/ ~resource_isdir(rd)
             THEN RaiseTo(s)
             ELSE /\ touched' = [touched EXCEPT ![s] = @ \cup {rd}]
                  /\ udleft' = [udleft EXCEPT ![s] = resource_listdir(rd)]
                  /\ pc' = [pc EXCEPT ![s] = "ud_loop"]
                  /\ UNCHANGED <<result, ret, todo, skipped>>
  /\ UNCHANGED <<envVars, sig, call, resource_subdir, lock_file, handles, subdir, tmp,
                 off, calls, exits, lastExc, callAttempts, callMkdirs, dirs, markers,
                 extExcl, extLocks>>

\* lines 205-224: the checks, the destination directory, the listing
UnpackDirStart(s) ==
  /\ pc[s] = "ud_start"
  /\ LET rd == CurDir(s)
         key == <<resource_subdir[s], CurDir(s)>>
     IN IF ~resource_exists(rd) \/ ~resource_isdir(rd)
          THEN /\ RaiseTo(s)
               /\ UNCHANGED fs
          ELSE /\ fs' = IF fs[key].kind = "none"
                          THEN [fs EXCEPT ![key] = DirEntry] ELSE fs
               /\ touched' = [touched EXCEPT ![s] = @ \cup {rd}]
               /\ udleft' = [udleft EXCEPT ![s] = resource_listdir(rd)]
               /\ pc' = [pc EXCEPT ![s] = "ud_loop"]
               /\ UNCHANGED <<result, ret, todo, skipped>>
  /\ UNCHANGED <<envVars, sig, call, resource_subdir, lock_file, handles, subdir, tmp,
                 off, calls, exits, lastExc, callAttempts, callMkdirs, dirs, markers,
                 extExcl, extLocks>>

\* lines 224-227: the child's path exists, it is skipped
UnpackDirSkip(s) ==
  /\ pc[s] = "ud_loop"
  /\ udleft[s] # << >>
  /\ PathExists(resource_subdir[s], Join(CurDir(s), Head(udleft[s])))
  /\ udleft' = [udleft EXCEPT ![s] = Tail(@)]
  /\ skipped' = [skipped EXCEPT ![s] =
        IF fs[<<resource_subdir[s], Join(CurDir(s), Head(udleft[s]))>>].kind # "none"
          THEN @ \cup {Join(CurDir(s), Head(udleft[s]))} ELSE @]
  /\ UNCHANGED <<envVars, sig, pc, call, resource_subdir, lock_file, handles, subdir,
                 todo, tmp, off, result, ret, calls, exits, lastExc, callAttempts,
                 callMkdirs, touched, dirs, markers, extExcl, extLocks, fs>>

\* lines 224-230: the child's path does not exist, it is unpacked
UnpackDirChild(s) ==
  /\ pc[s] = "ud_loop"
  /\ udleft[s] # << >>
  /\ ~PathExists(resource_subdir[s], Join(CurDir(s), Head(udleft[s])))
  /\ todo' = [todo EXCEPT ![s] =
        <<Item(Join(CurDir(s), Head(udleft[s])), Join(CurDir(s), Head(udleft[s])), FALSE)>>]
  /\ udleft' = [udleft EXCEPT ![s] = Tail(@)]
  /\ skipped' = [skipped EXCEPT ![s] =
        IF fs[<<resource_subdir[s], Join(CurDir(s), Head(udleft[s]))>>].kind # "none"
          THEN @ \cup {Join(CurDir(s), Head(udleft[s]))} ELSE @]
  /\ pc' = [pc EXCEPT ![s] = "unpack"]
  /\ UNCHANGED <<envVars, sig, call, resource_subdir, lock_file, handles, subdir, tmp,
                 off, result, ret, calls, exits, lastExc, callAttempts, callMkdirs,
                 touched, dirs, markers, extExcl, extLocks, fs>>

\* line 224: the listing is exhausted, _unpack_dir returns; _unpack_modules
\* goes on with its second directory (lines 199-202) or returns
UnpackDirReturn(s) ==
  /\ pc[s] = "ud_loop"
  /\ udleft[s] = << >>
  /\ IF call[s].phase = 1
       THEN /\ call' = [call EXCEPT ![s].phase = 2]
            /\ pc' = [pc EXCEPT ![s] = "subdir"]
            /\ callAttempts' = [callAttempts EXCEPT ![s] = 0]
            /\ callMkdirs' = [callMkdirs EXCEPT ![s] = 0]
            /\ UNCHANGED <<result, ret, skipped, touched>>
       ELSE /\ ReturnTo(s, None)
            /\ skipped' = [skipped EXCEPT ![s] = {}]
            /\ UNCHANGED <<call, callAttempts, callMkdirs>>
  /\ UNCHANGED <<envVars, sig, resource_subdir, lock_file, handles, subdir, todo, udleft,
                 tmp, off, calls, exits, lastExc, dirs, markers, extExcl, extLocks, fs>>

\* lines 113-119 reached from line 146 or 217: os.makedirs of a directory
\* below the cache directory fails with an error other than EEXIST
CreateTargetDirFails(s) ==
  /\ \/ /\ pc[s] = "unpack"
        /\ todo[s] # << >>
        /\ resource_exists(Head(todo[s]).name)
        /\ resource_isdir(Head(todo[s]).name)
        /\ ~PathExists(resource_subdir[s], Head(todo[s]).path)
     \/ /\ pc[s] = "ud_start"
        /\ resource_exists(CurDir(s))
        /\ resource_isdir(CurDir(s))
        /\ ~PathExists(resource_subdir[s], CurDir(s))
  /\ RaiseTo(s)
  /\ UNCHANGED <<envVars, sig, call, resource_subdir, lock_file, handles, subdir, tmp,
                 off, calls, exits, lastExc, callAttempts, callMkdirs, dirs, markers,
                 extExcl, extLocks, fs>>

\* ------------------------------------------------- the version methods
\* line 66: os.environ.get(key, default)
environ_get(key, default) ==
  IF key \in DOMAIN environ THEN environ[key] ELSE default

\* variant of get_fake_version: the environment is not consulted
get_fake_versionDefault(default) == default

\* lines 64-66
get_fake_version(default) == environ_get(BUCK_FAKE_VERSION_ENV, default)

\* lines 52-58
get_buck_version ==
  IF get_fake_version("") # ""
    THEN get_fake_version("")
    ELSE package_info.version

\* lines 60-62
has_fake_version == get_fake_version("") # ""

\* a call of the class method get_buck_version
GetBuckVersion ==
  /\ buck_version' = <<get_buck_version>>
  /\ UNCHANGED <<package, package_info, environ, fake_version, has_fake,
                 sessVars, dirs, markers, extExcl, extLocks, fs>>

\* a call of the class method has_fake_version
HasFakeVersion ==
  /\ has_fake' = <<has_fake_version>>
  /\ UNCHANGED <<package, package_info, environ, buck_version, fake_version,
                 sessVars, dirs, markers, extExcl, extLocks, fs>>

\* a call of the class method get_fake_version
GetFakeVersion(default) ==
  /\ fake_version' = <<default, get_fake_version(default)>>
  /\ UNCHANGED <<package, package_info, environ, buck_version, has_fake,
                 sessVars, dirs, markers, extExcl, extLocks, fs>>

\* ------------------------------------------------------- specification
Next ==
  \/ GetBuckVersion
  \/ HasFakeVersion
  \/ \E default \in Defaults : GetFakeVersion(default)
  \/ \E s \in Sessions : \E r \in Descriptors : CallGetResource(s, r)
  \/ \E s \in Sessions : CallUnpackModules(s)
  \/ \E s \in Sessions : SubdirMemo(s)
  \/ \E s \in Sessions : TryCanonical(s)
  \/ \E s \in Sessions : CreateDirFails(s)
  \/ \E s \in Sessions : LockCanonical(s)
  \/ \E s \in Sessions : Mkdtemp(s)
  \/ \E s \in Sessions : MkdtempFails(s)
  \/ \E s \in Sessions : TryFallback(s)
  \/ \E s \in Sessions : LockFallback(s)
  \/ \E s \in Sessions : GetResourceCheck(s)
  \/ \E s \in Sessions : UnpackReturn(s)
  \/ \E s \in Sessions : UnpackMissing(s)
  \/ \E s \in Sessions : UnpackDirectory(s)
  \/ \E s \in Sessions : UnpackLeafTemp(s)
  \/ \E s \in Sessions : CopyOpen(s)
  \/ \E s \in Sessions : CopyChunk(s)
  \/ \E s \in Sessions : CopyFinish(s)
  \/ \E s \in Sessions : UnpackDirStart(s)
  \/ \E s \in Sessions : UnpackDirSkip(s)
  \/ \E s \in Sessions : UnpackDirChild(s)
  \/ \E s \in Sessions : UnpackDirReturn(s)
  \/ \E s \in Sessions : CreateTargetDirFails(s)
  \/ \E s \in Sessions : \E exc \in BOOLEAN : Exit(s, exc)
  \/ \E s \in Sessions : Finalize(s)
  \/ \E s \in Sessions : Crash(s)
  \/ \E d \in AllDirs : ExtLock(d)
  \/ \E d \in AllDirs : ExtUnlock(d)

Spec == Init /\ [][Next]_vars

\* The specification of the cache directory locator: every session asks only
\* for the path of BOOTSTRAPPER, which touches no file below the cache
\* directory, under every behaviour of the foreign lock holder. A session
\* makes its calls inside the with block, that is before its first __exit__.
NextLocate ==
  \/ \E s \in Sessions : exits[s] = 0 /\ CallGetResource(s, BOOTSTRAPPER)
  \/ \E s \in Sessions : SubdirMemo(s)
  \/ \E s \in Sessions : TryCanonical(s)
  \/ \E s \in Sessions : CreateDirFails(s)
  \/ \E s \in Sessions : LockCanonical(s)
  \/ \E s \in Sessions : Mkdtemp(s)
  \/ \E s \in Sessions : MkdtempFails(s)
  \/ \E s \in Sessions : TryFallback(s)
  \/ \E s \in Sessions : LockFallback(s)
  \/ \E s \in Sessions : GetResourceCheck(s)
  \/ \E s \in Sessions : UnpackReturn(s)
  \/ \E s \in Sessions : UnpackMissing(s)
  \/ \E s \in Sessions : \E exc \in BOOLEAN : Exit(s, exc)
  \/ \E d \in AllDirs : ExtLock(d)
  \/ \E d \in AllDirs : ExtUnlock(d)

SpecLocate == InitStd /\ [][NextLocate]_vars

\* The specification of the resource materializer: no foreign process holds
\* a marker file, so every session resolves to its canonical directory; the
\* sessions share it or not according to their signatures.
NextUnpack ==
  \/ \E s \in Sessions : \E r \in Registry : CallGetResource(s, r)
  \/ \E s \in Sessions : CallUnpackModules(s)
  \/ \E s \in Sessions : SubdirMemo(s)
  \/ \E s \in Sessions : TryCanonical(s)
  \/ \E s \in Sessions : LockCanonical(s)
  \/ \E s \in Sessions : GetResourceCheck(s)
  \/ \E s \in Sessions : UnpackReturn(s)
  \/ \E s \in Sessions : UnpackMissing(s)
  \/ \E s \in Sessions : UnpackDirectory(s)
  \/ \E s \in Sessions : UnpackLeafTemp(s)
  \/ \E s \in Sessions : CopyOpen(s)
  \/ \E s \in Sessions : CopyChunk(s)
  \/ \E s \in Sessions : CopyFinish(s)
  \/ \E s \in Sessions : UnpackDirStart(s)
  \/ \E s \in Sessions : UnpackDirSkip(s)
  \/ \E s \in Sessions : UnpackDirChild(s)
  \/ \E s \in Sessions : UnpackDirReturn(s)
  \/ \E s \in Sessions : CreateTargetDirFails(s)
  \/ \E s \in Sessions : Crash(s)

SpecUnpack == InitStd /\ [][NextUnpack]_vars

\* The specification of the extraction modes: the sessions ask for an
\* executable and a plain descriptor and unpack the module directories, all
\* of which the package holds; no directory creation fails and no process
\* terminates.
NextExec ==
  \/ \E s \in Sessions : \E r \in {TOOL, SERVER} : CallGetResource(s, r)
  \/ \E s \in Sessions : CallUnpackModules(s)
  \/ \E s \in Sessions : SubdirMemo(s)
  \/ \E s \in Sessions : TryCanonical(s)
  \/ \E s \in Sessions : LockCanonical(s)
  \/ \E s \in Sessions : GetResourceCheck(s)
  \/ \E s \in Sessions : UnpackReturn(s)
  \/ \E s \in Sessions : UnpackDirectory(s)
  \/ \E s \in Sessions : UnpackLeafTemp(s)
  \/ \E s \in Sessions : CopyOpen(s)
  \/ \E s \in Sessions : CopyChunk(s)
  \/ \E s \in Sessions : CopyFinish(s)
  \/ \E s \in Sessions : UnpackDirStart(s)
  \/ \E s \in Sessions : UnpackDirSkip(s)
  \/ \E s \in Sessions : UnpackDirChild(s)
  \/ \E s \in Sessions : UnpackDirReturn(s)

SpecExec == InitStd /\ [][NextExec]_vars

\* The specification of the version methods: every package, packaged version
\* and setting of the override, and the three class methods.
NextVersion ==
  \/ GetBuckVersion
  \/ HasFakeVersion
  \/ \E default \in Defaults : GetFakeVersion(default)

SpecVersion == Init /\ [][NextVersion]_vars

\* The specification of _unpack_dir over the packages: the complete one and
\* those in which a module directory is missing or is a file entry.
InitDir ==
  /\ Init
  /\ package_info = StdInfo
  /\ environ = NoEnviron

NextDir ==
  \/ \E s \in Sessions : CallUnpackModules(s)
  \/ \E s \in Sessions : SubdirMemo(s)
  \/ \E s \in Sessions : TryCanonical(s)
  \/ \E s \in Sessions : LockCanonical(s)
  \/ \E s \in Sessions : UnpackReturn(s)
  \/ \E s \in Sessions : UnpackDirectory(s)
  \/ \E s \in Sessions : UnpackLeafTemp(s)
  \/ \E s \in Sessions : CopyOpen(s)
  \/ \E s \in Sessions : CopyChunk(s)
  \/ \E s \in Sessions : CopyFinish(s)
  \/ \E s \in Sessions : UnpackDirStart(s)
  \/ \E s \in Sessions : UnpackDirSkip(s)
  \/ \E s \in Sessions : UnpackDirChild(s)
  \/ \E s \in Sessions : UnpackDirReturn(s)

SpecDir == InitDir /\ [][NextDir]_vars

\* The specification of a session object used across its __exit__: resource
\* requests and _unpack_modules before and after the lock is released.
NextReuse ==
  \/ \E s \in Sessions : CallGetResource(s, SERVER)
  \/ \E s \in Sessions : CallUnpackModules(s)
  \/ \E s \in Sessions : SubdirMemo(s)
  \/ \E s \in Sessions : TryCanonical(s)
  \/ \E s \in Sessions : LockCanonical(s)
  \/ \E s \in Sessions : GetResourceCheck(s)
  \/ \E s \in Sessions : UnpackReturn(s)
  \/ \E s \in Sessions : UnpackDirectory(s)
  \/ \E s \in Sessions : UnpackLeafTemp(s)
  \/ \E s \in Sessions : CopyOpen(s)
  \/ \E s \in Sessions : CopyChunk(s)
  \/ \E s \in Sessions : CopyFinish(s)
  \/ \E s \in Sessions : UnpackDirStart(s)
  \/ \E s \in Sessions : UnpackDirSkip(s)
  \/ \E s \in Sessions : UnpackDirChild(s)
  \/ \E s \in Sessions : UnpackDirReturn(s)
  \/ \E s \in Sessions : \E exc \in BOOLEAN : Exit(s, exc)

SpecReuse == InitStd /\ [][NextReuse]_vars

\* The specification of the marker-file handles: the cache directory
\* locator together with the runtime's reclaiming of unreferenced handles.
NextHandles ==
  \/ \E s \in Sessions : exits[s] = 0 /\ CallGetResource(s, BOOTSTRAPPER)
  \/ \E s \in Sessions : SubdirMemo(s)
  \/ \E s \in Sessions : TryCanonical(s)
  \/ \E s \in Sessions : CreateDirFails(s)
  \/ \E s \in Sessions : LockCanonical(s)
  \/ \E s \in Sessions : Mkdtemp(s)
  \/ \E s \in Sessions : MkdtempFails(s)
  \/ \E s \in Sessions : TryFallback(s)
  \/ \E s \in Sessions : LockFallback(s)
  \/ \E s \in Sessions : GetResourceCheck(s)
  \/ \E s \in Sessions : UnpackReturn(s)
  \/ \E s \in Sessions : UnpackMissing(s)
  \/ \E s \in Sessions : \E exc \in BOOLEAN : Exit(s, exc)
  \/ \E s \in Sessions : Finalize(s)
  \/ \E d \in AllDirs : ExtLock(d)
  \/ \E d \in AllDirs : ExtUnlock(d)

SpecHandles == InitStd /\ [][NextHandles]_vars

TypeOK ==
  /\ pc \in [Sessions -> {"idle", "subdir", "lock1", "mkdtemp", "open2", "lock2",
                          "gr_check", "unpack", "copy_open", "copy", "ud_start",
                          "ud_loop", "dead"}]
  /\ dirs \subseteq AllDirs
  /\ markers \subseteq dirs


\* ================================================================ claims
\* the session holds a shared lock on the marker file of directory d
HoldsLock(s, d) == s \in SharedHolders(d)

\* the session has resolved to a directory other than its canonical one
IsFallback(s) ==
  resource_subdir[s] # None /\ resource_subdir[s] # Canonical(sig[s])

\* a step in which session s runs __exit__
ExitStep(s) == exits'[s] = exits[s] + 1

\* C1: __exit__ of a session that holds a lock closes the lock handle, which
\* is thereby closed exactly once, and leaves the session with no lock,
\* whether or not an exception is propagating; an __exit__ of a session
\* that holds no lock (a second __exit__, or no lock was ever acquired)
\* changes nothing.
C1_ExitReleasesOnce ==
  /\ [](\A s \in Sessions : \A i \in 1..Len(handles[s]) :
          /\ handles[s][i].closes <= 1
          /\ handles[s][i].state = "closed" => handles[s][i].closes = 1)
  /\ [][\A s \in Sessions : ExitStep(s) =>
          /\ lock_file'[s] = 0
          /\ ~(\E d \in AllDirs : HoldsLock(s, d))'
          /\ <<pc, resource_subdir, result, ret, dirs, markers, fs>>'
               = <<pc, resource_subdir, result, ret, dirs, markers, fs>>
          /\ IF lock_file[s] # 0
               THEN /\ handles[s][lock_file[s]].state = "locked"
                    /\ handles'[s] = [handles[s] EXCEPT ![lock_file[s]] =
                          [dir |-> @.dir, state |-> "closed", closes |-> 1]]
               ELSE handles'[s] = handles[s]]_vars

\* C1 witness: one session left the scope with an exception and its fallback
\* lock handle is closed once, another left it normally, ran __exit__ twice
\* and its canonical lock handle is closed once
C1_Witness ==
  \E s, t \in Sessions :
    /\ exits[s] = 1 /\ lastExc[s] /\ lock_file[s] = 0
    /\ \E i \in 1..Len(handles[s]) :
         /\ handles[s][i].dir # Canonical(sig[s])
         /\ handles[s][i].state = "closed" /\ handles[s][i].closes = 1
    /\ exits[t] = 2 /\ ~lastExc[t] /\ lock_file[t] = 0
    /\ \E i \in 1..Len(handles[t]) :
         /\ handles[t][i].dir = Canonical(sig[t])
         /\ handles[t][i].state = "closed" /\ handles[t][i].closes = 1

\* C2: when _get_resource_subdir returns after its lock attempt on the
\* canonical directory was refused (it made two attempts in this call), the
\* session has resolved to an existing directory other than root/signature
\* and holds the acquired lock on the marker file inside it.
C2_FallbackDistinctAndLocked ==
  \A s \in Sessions :
    (callAttempts[s] = 2 /\ pc[s] \in {"gr_check", "ud_start", "unpack"}) =>
      /\ resource_subdir[s] # None
      /\ resource_subdir[s] # Canonical(sig[s])
      /\ resource_subdir[s] \in dirs
      /\ lock_file[s] # 0
      /\ handles[s][lock_file[s]].dir = resource_subdir[s]
      /\ handles[s][lock_file[s]].state = "locked"
      /\ resource_subdir[s] \notin extExcl

\* C2 witness: the canonical marker is held exclusively by the foreign
\* process while the session has returned from the fallback with its lock
C2_Witness ==
  \E s \in Sessions :
    /\ callAttempts[s] = 2 /\ pc[s] = "gr_check"
    /\ Canonical(sig[s]) \in extExcl
    /\ IsFallback(s) /\ HoldsLock(s, resource_subdir[s])

\* C5: once self._resource_subdir is set, no step of the session changes
\* it, opens a marker file, attempts a lock or creates a cache directory,
\* and a call of _get_resource_subdir goes straight to its return.
C5_SubdirIdempotent ==
  [][\A s \in Sessions : resource_subdir[s] # None =>
        /\ resource_subdir'[s] = resource_subdir[s]
        /\ Len(handles'[s]) = Len(handles[s])
        /\ callAttempts'[s] <= callAttempts[s]
        /\ callMkdirs'[s] <= callMkdirs[s]
        /\ (pc'[s] # pc[s] => dirs' = dirs /\ markers' = markers)
        /\ (pc[s] = "subdir" /\ pc'[s] # "subdir" => pc'[s] = AfterSubdir(s))]_vars

\* C5 witness: a second call has returned from _get_resource_subdir through
\* the memo, with the one handle of the first call
C5_Witness ==
  \E s \in Sessions :
    /\ calls[s] = 2 /\ pc[s] = "gr_check"
    /\ callAttempts[s] = 0 /\ callMkdirs[s] = 0
    /\ Len(handles[s]) = 1 /\ lock_file[s] = 1
    /\ resource_subdir[s] = Canonical(sig[s])

\* C7: a lock attempt on the canonical marker made while no foreign process
\* holds it exclusively succeeds, whoever else holds it shared: the session
\* resolves to root/signature and holds the shared lock; finding the
\* directory already created is not an error, any other creation failure is
\* raised and leaves the session unresolved.
C7_CanonicalConvergence ==
  /\ [](\A d \in extExcl : SharedHolders(d) = {})
  /\ [][\A s \in Sessions :
          /\ (pc[s] = "lock1" /\ pc'[s] # "lock1" /\ subdir[s] \notin extExcl) =>
                /\ resource_subdir'[s] = Canonical(sig[s])
                /\ lock_file'[s] # 0
                /\ HoldsLock(s, Canonical(sig[s]))'
                /\ \A t \in Sessions : HoldsLock(t, Canonical(sig[s])) =>
                                        HoldsLock(t, Canonical(sig[s]))'
          /\ (pc[s] = "subdir" /\ NeedsResolve(s) /\ pc'[s] # "subdir"
                /\ Canonical(sig[s]) \in dirs) => pc'[s] = "lock1"
          /\ (pc[s] = "subdir" /\ pc'[s] = "idle") =>
                /\ Canonical(sig[s]) \notin dirs
                /\ result'[s] = "raised"
                /\ resource_subdir'[s] = None /\ lock_file'[s] = 0]_vars

\* C7 witness: two sessions with the same signature hold the shared lock on
\* the canonical directory together, and the second found it created
C7_Witness ==
  \E s, t \in Sessions :
    /\ s # t /\ sig[s] = sig[t]
    /\ resource_subdir[s] = Canonical(sig[s])
    /\ resource_subdir[t] = Canonical(sig[s])
    /\ SharedHolders(Canonical(sig[s])) = {s, t}
    /\ calls[t] = 1 /\ callMkdirs[t] = 0 /\ callAttempts[t] = 1

\* C8: a call of _get_resource_subdir makes at most two lock attempts, the
\* first on root/signature and the second on a directory mkdtemp created
\* fresh; a refused second attempt raises and leaves the session with no
\* resolved directory and no held lock.
C8_TwoAttemptsThenFatal ==
  /\ [](\A s \in Sessions :
          /\ callAttempts[s] <= 2
          /\ Len(handles[s]) >= callAttempts[s]
          /\ callAttempts[s] = 1 /\ pc[s] \notin {"open2", "lock2"} =>
               handles[s][Len(handles[s])].dir = Canonical(sig[s])
          /\ callAttempts[s] = 2 =>
               /\ handles[s][Len(handles[s]) - 1].dir = Canonical(sig[s])
               /\ handles[s][Len(handles[s])].dir \in MkdtempNames(sig[s])
               /\ handles[s][Len(handles[s])].dir # Canonical(sig[s])
          /\ (callAttempts[s] = 2 /\ result[s] = "raised") =>
               /\ resource_subdir[s] = None
               /\ lock_file[s] = 0
               /\ ~(\E d \in AllDirs : HoldsLock(s, d)))
  /\ [][\A s \in Sessions :
          /\ (pc[s] = "mkdtemp" /\ pc'[s] = "open2") =>
                subdir'[s] \notin dirs /\ subdir'[s] \in dirs'
          /\ (pc[s] = "lock2" /\ pc'[s] # "lock2" /\ subdir[s] \in extExcl) =>
                pc'[s] = "idle" /\ result'[s] = "raised"]_vars

\* C8 witness: both attempts of a call were refused and the call has raised
C8_Witness ==
  \E s \in Sessions :
    /\ callAttempts[s] = 2 /\ pc[s] = "idle" /\ result[s] = "raised"
    /\ Len(handles[s]) = 2

\* C9: a fallback directory a session has resolved to is neither the
\* directory another session has resolved to nor the canonical path
\* root/signature of any session.
C9_PrivateFallback ==
  \A s \in Sessions : IsFallback(s) =>
    \A t \in Sessions :
      /\ t # s => resource_subdir[t] # resource_subdir[s]
      /\ Canonical(sig[t]) # resource_subdir[s]

\* the first half of C9 alone: no session has resolved to the fallback
\* directory of another session
C9_NoSharedFallback ==
  \A s \in Sessions : IsFallback(s) =>
    \A t \in Sessions : t # s => resource_subdir[t] # resource_subdir[s]


\* C3: every file that exists below a cache directory under the name of a
\* package file holds the complete bytes of that package file.
C3_TargetsComplete ==
  \A d \in AllDirs : \A n \in DOMAIN PkgFiles :
    fs[<<d, n>>].kind = "file" => fs[<<d, n>>].data = resource_string(n)

\* C4: a finished _get_resource call for a descriptor whose name is not in
\* the package has raised.
C4_MissingResourceRaises ==
  \A s \in Sessions :
    (pc[s] = "idle" /\ call[s].kind = "get" /\ result[s] # "none"
       /\ ~resource_exists(call[s].res.name)) => result[s] = "raised"

\* p is a path at or below path q
IsBelow(p, q) == Len(q) <= Len(p) /\ SubSeq(p, 1, Len(q)) = q

\* C6: a path the session found present when it examined it (in
\* _get_resource or in the loop of _unpack_dir) is, for the rest of the
\* call, neither read from the package nor written by the session, nor is
\* anything below it; the examining step itself leaves the files and the
\* session's temporary file as they are.
C6_PresentTargetUntouched ==
  /\ [](\A s \in Sessions : \A p \in skipped[s] :
          /\ \A q \in touched[s] : ~IsBelow(q, p)
          /\ \A i \in 1..Len(todo[s]) : ~IsBelow(todo[s][i].path, p))
  /\ [][\A s \in Sessions :
          (skipped'[s] \ skipped[s] # {}) =>
             fs' = fs /\ tmp' = tmp /\ touched'[s] \subseteq touched[s]]_vars

\* C6 witness: one session has returned the path of SERVER it found present,
\* another has skipped the child a of buck-modules it found present and is
\* still in the loop of _unpack_dir
C6_Witness ==
  \E s, t \in Sessions :
    /\ pc[s] = "idle" /\ call[s].kind = "get" /\ result[s] = "ok"
    /\ skipped[s] = {SERVER.basename}
    /\ ret[s] = <<resource_subdir[s], SERVER.basename>>
    /\ pc[t] = "ud_loop" /\ call[t].phase = 1
    /\ Join(MODULES_DIR, "a") \in skipped[t]
    /\ fs[<<resource_subdir[t], Join(MODULES_DIR, "a")>>].data = <<5>>

\* C10: when _get_resource returns after extracting a file resource of the
\* package, the returned path is a file holding the bytes of the resource.
C10_RoundTrip ==
  [][\A s \in Sessions :
       (pc[s] = "unpack" /\ pc'[s] = "idle" /\ call[s].kind = "get"
          /\ resource_exists(call[s].res.name)
          /\ ~resource_isdir(call[s].res.name)) =>
         /\ result'[s] = "ok"
         /\ fs'[ret'[s]].kind = "file"
         /\ fs'[ret'[s]].data = resource_string(call[s].res.name)]_vars

\* no other session has the signature, hence the cache directory, of s
SoleUser(s) == \A t \in Sessions : t # s => sig[t] # sig[s]

\* C11: when _unpack_dir of buck-modules has returned in a session that is
\* the only user of its cache directory and found none of the entries
\* present, every file entry below buck-modules, at any depth, exists under
\* the target with its bytes, and every directory on the way to it exists.
C11_UnpackDirComplete ==
  \A s \in Sessions :
    (SoleUser(s) /\ call[s].kind = "modules" /\ call[s].phase = 2
       /\ skipped[s] = {}) =>
      \A n \in DOMAIN PkgFiles : IsBelow(n, MODULES_DIR) =>
        /\ fs[<<resource_subdir[s], n>>].kind = "file"
        /\ fs[<<resource_subdir[s], n>>].data = resource_string(n)
        /\ \A i \in 1..(Len(n) - 1) :
             fs[<<resource_subdir[s], SubSeq(n, 1, i)>>].kind = "dir"

\* C11 witness: a sole user's _unpack_dir of buck-modules found nothing
\* present and has returned; a and b/c are in place
C11_Witness ==
  \E s \in Sessions :
    /\ SoleUser(s) /\ call[s].kind = "modules" /\ call[s].phase = 2
    /\ skipped[s] = {} /\ pc[s] = "ud_start"
    /\ fs[<<resource_subdir[s], <<"buck-modules", "a">> >>].data = <<5>>
    /\ fs[<<resource_subdir[s], <<"buck-modules", "b">> >>].kind = "dir"
    /\ fs[<<resource_subdir[s], <<"buck-modules", "b", "c">> >>].data = <<6>>

\* C12: when the extraction of a file finishes, the file has the owner
\* execute bit exactly if it is the leaf of a descriptor whose executable
\* flag is true; the leaf of a plain descriptor and the files placed through
\* directory recursion or _unpack_dir do not get it, so no file but the
\* target of an executable descriptor ever has the bit.
C12_ExecutableBit ==
  /\ [](\A d \in AllDirs : \A n \in AllNames :
          fs[<<d, n>>].x =>
            \E r \in Descriptors : r.executable /\ n = r.basename)
  /\ [][\A s \in Sessions :
          (pc[s] = "copy" /\ pc'[s] = "unpack") =>
             fs'[<<resource_subdir[s], Head(todo[s]).path>>].x
               = (/\ call[s].kind = "get"
                  /\ call[s].res.executable
                  /\ Head(todo[s]).path = call[s].res.basename)]_vars

\* C12 witness: one cache directory holds the extracted target of the
\* executable descriptor with the bit, and without it the target of a plain
\* descriptor and a file placed through the recursion of _unpack_dir
C12_Witness ==
  \E d \in AllDirs :
    /\ fs[<<d, TOOL.basename>>].kind = "file"
    /\ fs[<<d, TOOL.basename>>].data = <<9>>
    /\ fs[<<d, TOOL.basename>>].x
    /\ fs[<<d, SERVER.basename>>].data = <<7, 8>>
    /\ ~fs[<<d, SERVER.basename>>].x
    /\ fs[<<d, <<"buck-modules", "b", "c">> >>].data = <<6>>
    /\ ~fs[<<d, <<"buck-modules", "b", "c">> >>].x
    /\ \A s \in Sessions : pc[s] = "idle"

\* the override is set to a non-empty string
OverrideSet ==
  /\ BUCK_FAKE_VERSION_ENV \in DOMAIN environ
  /\ environ[BUCK_FAKE_VERSION_ENV] # ""

\* C13: get_buck_version has returned the value of the override if that is
\* set to a non-empty string and the packaged version if it is unset or
\* empty; has_fake_version has returned true exactly if the override is set
\* to a non-empty string.
C13_VersionOverride ==
  /\ buck_version # << >> =>
       buck_version[1] = IF OverrideSet THEN environ[BUCK_FAKE_VERSION_ENV]
                                        ELSE package_info.version
  /\ has_fake # << >> => has_fake[1] = OverrideSet

\* C13 witness: with the override set to a value that is not the packaged
\* version, get_buck_version returned it and has_fake_version returned true
C13_Witness ==
  /\ OverrideSet
  /\ environ[BUCK_FAKE_VERSION_ENV] # package_info.version
  /\ buck_version = <<environ[BUCK_FAKE_VERSION_ENV]>>
  /\ has_fake = <<TRUE>>

\* C13, the other case: with the override set to the empty string the
\* packaged version was returned and has_fake_version returned false
C13_WitnessEmpty ==
  /\ BUCK_FAKE_VERSION_ENV \in DOMAIN environ
  /\ environ[BUCK_FAKE_VERSION_ENV] = ""
  /\ buck_version = <<package_info.version>>
  /\ has_fake = <<FALSE>>

\* C14: when _unpack_dir returns normally in a session, every package entry
\* below the directory it was asked for exists under the target.
C14_PresenceMeansComplete ==
  [][\A s \in Sessions :
       (pc[s] = "ud_loop" /\ pc'[s] \in {"subdir", "idle"}) =>
          \A n \in AllNames :
            (resource_exists(n) /\ IsBelow(n, CurDir(s))) =>
               PathExists(resource_subdir[s], n)]_vars

\* the activation at the head of the stack was started by the recursion of
\* _unpack_resource, not by _get_resource or the loop of _unpack_dir
IsNested(s) ==
  /\ todo[s] # << >>
  /\ Len(Head(todo[s]).path) > (IF call[s].kind = "get" THEN 1 ELSE 2)

\* C15: a nested entry whose path exists at the moment the recursion
\* reaches it is skipped: the step that handles it reads nothing from the
\* package, writes nothing and goes on to the next entry.
C15_NestedSkip ==
  [][\A s \in Sessions :
       (/\ pc[s] = "unpack" /\ IsNested(s)
        /\ PathExists(resource_subdir[s], Head(todo[s]).path)
        /\ pc'[s] \in {"unpack", "copy_open"}
        /\ <<pc[s], todo[s]>>' # <<pc[s], todo[s]>>) =>
          /\ tmp'[s] = tmp[s]
          /\ fs' = fs
          /\ pc'[s] = "unpack"
          /\ todo'[s] = Tail(todo[s])]_vars

\* the resource _unpack_dir is asked for is not a directory of the package
NotUnpackable(n) == ~resource_exists(n) \/ ~resource_isdir(n)

\* C16: _unpack_dir of a name that does not exist in the package, or that
\* exists but is not a directory, raises, and the raising call creates no
\* directory and writes no file: nothing exists at its destination unless
\* it was there before the call.
C16_UnpackDirRaises ==
  /\ [](NotUnpackable(MODULES_DIR) =>
          \A d \in AllDirs : \A n \in AllNames :
             IsBelow(n, MODULES_DIR) => ~PathExists(d, n))
  /\ [](NotUnpackable(MODULES_RESOURCES_DIR) =>
          \A d \in AllDirs : ~PathExists(d, MODULES_RESOURCES_DIR))
  /\ [][\A s \in Sessions :
          (pc[s] = "ud_start" /\ pc'[s] # "ud_start"
             /\ NotUnpackable(CurDir(s))) =>
            /\ pc'[s] = "idle"
            /\ result'[s] = "raised"
            /\ fs' = fs /\ tmp' = tmp /\ dirs' = dirs]_vars

\* C16 witness: the package has no buck-modules; _unpack_modules has raised
\* in its first _unpack_dir and nothing is at the destination
C16_Witness ==
  \E s \in Sessions :
    /\ ~resource_exists(MODULES_DIR)
    /\ pc[s] = "idle" /\ result[s] = "raised"
    /\ call[s].kind = "modules" /\ call[s].phase = 1
    /\ resource_subdir[s] # None
    /\ ~PathExists(resource_subdir[s], MODULES_DIR)

\* C16, the other case: buck-modules is a file entry of the package
C16_WitnessNotDir ==
  \E s \in Sessions :
    /\ resource_exists(MODULES_DIR) /\ ~resource_isdir(MODULES_DIR)
    /\ pc[s] = "idle" /\ result[s] = "raised"
    /\ call[s].kind = "modules" /\ call[s].phase = 1
    /\ resource_subdir[s] # None
    /\ ~PathExists(resource_subdir[s], MODULES_DIR)

\* a step of session s in its unpacking code
UnpackStep(s) ==
  /\ pc[s] \in {"unpack", "copy_open", "copy", "ud_start"}
  /\ <<pc[s], todo[s], off[s], udleft[s]>>' # <<pc[s], todo[s], off[s], udleft[s]>>

\* C17: every step in which a session creates a directory or writes a file
\* below a cache directory is taken while the session holds the lock on the
\* marker file of that cache directory.
C17_WritesUnderLock ==
  [][\A s \in Sessions :
       (UnpackStep(s) /\ fs' # fs) =>
          /\ lock_file[s] # 0
          /\ HoldsLock(s, resource_subdir[s])]_vars

\* the marker-file handles of session s that are not closed
OpenHandles(s) ==
  {i \in 1..Len(handles[s]) : handles[s][i].state # "closed"}

\* C18: every marker-file handle of a session is its held lock handle, or
\* the handle of the lock attempt in progress, or closed; a session has at
\* most one handle that is not closed and none once it has run __exit__.
C18_NoHandleLeak ==
  \A s \in Sessions :
    /\ \A i \in OpenHandles(s) :
         \/ i = lock_file[s]
         \/ i = Len(handles[s]) /\ pc[s] \in {"lock1", "lock2"}
    /\ Cardinality(OpenHandles(s)) <= 1
    /\ (exits[s] > 0 /\ pc[s] = "idle") => OpenHandles(s) = {}

\* the last part of C18 alone: no handle is open after __exit__
C18_NoneAfterExit ==
  \A s \in Sessions :
    (exits[s] > 0 /\ pc[s] = "idle") => OpenHandles(s) = {}

====
